---- MODULE Spec2Model ----
(***************************************************************************)
(* go-nsq command.go: the Command value, its constructors (one per         *)
(* protocol verb) and Command.WriteTo, the serializer that writes a        *)
(* Command to an io.Writer field by field.                                 *)
(*                                                                         *)
(* A byte is a number in 0..255 and a []byte or string is a sequence of    *)
(* bytes.  A Go slice value additionally carries whether it is nil, since  *)
(* WriteTo branches on `c.Body != nil`.  The build is a 64-bit one: int is *)
(* as wide as time.Duration, and len() may exceed the 32-bit fields.  The  *)
(* 32-bit integer types of the length fields are scaled to IntWidth bits.  *)
(***************************************************************************)
EXTENDS Integers, Sequences, FiniteSets, TLC

(***************************************************************************)
(* Bounds of the model.                                                    *)
(***************************************************************************)
\* width in bits of uint32 / int32, scaled down (32 in the build)
IntWidth == 5
\* longest message body drawn for PUB / DPUB / AUTH
MaxBodyLen == 2
\* most messages in one MPUB list
MaxMsgs == 2
\* a sink fails at its k-th Write call for k in 1..MaxFail (0: never)
MaxFail == 8
\* a failing Write reports min(partial, len(p)) bytes, partial in 0..MaxPartial
MaxPartial == 2
\* number of concurrent WriteTo callers
NProcs == 2

Procs == 1..NProcs

(***************************************************************************)
(* Program constants.                                                      *)
(***************************************************************************)
SP == 32
NL == 10
Millisecond == 1000000
MsgIDLength == 16

(***************************************************************************)
(* Go values.                                                              *)
(***************************************************************************)
NilSlice == [isNil |-> TRUE, b |-> <<>>]
Bytes(s) == [isNil |-> FALSE, b |-> s]

ErrNil == [isNil |-> TRUE, id |-> 0, kind |-> "nil"]
SinkErr(k) == [isNil |-> FALSE, id |-> k, kind |-> "io"]
JsonErr == [isNil |-> FALSE, id |-> 0, kind |-> "json"]

\* type Command struct { Name []byte; Params [][]byte; Body []byte }
Command(name, params, body) == [Name |-> name, Params |-> params, Body |-> body]
NoCommand == Command(<<>>, <<>>, NilSlice)

\* a constructor's return value: (*Command, error); ok = the pointer is non-nil
Ret(c) == [ok |-> TRUE, cmd |-> c, err |-> ErrNil]
RetErr(e) == [ok |-> FALSE, cmd |-> NoCommand, err |-> e]

Min(a, b) == IF a < b THEN a ELSE b

RECURSIVE Flatten(_)
Flatten(ss) == IF ss = <<>> THEN <<>> ELSE Head(ss) \o Flatten(Tail(ss))

(***************************************************************************)
(* Integer conversions.                                                    *)
(***************************************************************************)
\* uint32(x)
U32(x) == x % (2 ^ IntWidth)
\* int32(x)
I32(x) == LET m == x % (2 ^ IntWidth)
          IN IF m >= 2 ^ (IntWidth - 1) THEN m - 2 ^ IntWidth ELSE m

\* binary.BigEndian.PutUint32(b, v): b[0] = byte(v >> 24) ... b[3] = byte(v);
\* a negative int32 reaches it as its two's complement (floor division).
PutUint32LE(v) ==
    << v % 256, (v \div 256) % 256, (v \div 65536) % 256, (v \div 16777216) % 256 >>
PutUint32(v) ==
    << (v \div 16777216) % 256, (v \div 65536) % 256, (v \div 256) % 256, v % 256 >>

\* Go's integer division truncates toward zero
TruncDiv(a, b) == IF a >= 0 THEN a \div b ELSE -((-a) \div b)

\* strconv.Itoa
RECURSIVE Digits(_)
Digits(n) == IF n < 10 THEN << 48 + n >> ELSE Append(Digits(n \div 10), 48 + (n % 10))
Itoa(n) == IF n < 0 THEN << 45 >> \o Digits(-n) ELSE Digits(n)

\* delay / time.Millisecond, then int(): the same width on this build
DelayMsNanos(delay) == delay
DelayMs(delay) == TruncDiv(delay, Millisecond)

(***************************************************************************)
(* encoding/json Marshal of a map[string]interface{}.  A map is            *)
(* [isNil, keys, val]: val[k] is [kind, v] with kind "int", "bool" or      *)
(* "chan" (a value json cannot encode).  Keys are written sorted.          *)
(***************************************************************************)
RECURSIVE SeqLess(_, _)
SeqLess(a, b) ==
    IF a = <<>> THEN b # <<>>
    ELSE IF b = <<>> THEN FALSE
    ELSE IF Head(a) # Head(b) THEN Head(a) < Head(b)
    ELSE SeqLess(Tail(a), Tail(b))

RECURSIVE SortKeys(_)
SortKeys(ks) ==
    IF ks = {} THEN <<>>
    ELSE LET k == CHOOSE x \in ks : \A y \in ks \ {x} : SeqLess(x, y)
         IN << k >> \o SortKeys(ks \ {k})

JsonValue(x) ==
    IF x.kind = "int" THEN Itoa(x.v)
    ELSE IF x.v = 1 THEN << 116, 114, 117, 101 >> ELSE << 102, 97, 108, 115, 101 >>

RECURSIVE JsonMembers(_, _)
JsonMembers(ks, val) ==
    IF ks = <<>> THEN <<>>
    ELSE << 34 >> \o Head(ks) \o << 34, 58 >> \o JsonValue(val[Head(ks)])
         \o (IF Len(ks) > 1 THEN << 44 >> ELSE <<>>) \o JsonMembers(Tail(ks), val)

JsonMarshal(js) ==
    IF js.isNil THEN [err |-> ErrNil, body |-> Bytes(<< 110, 117, 108, 108 >>)]
    ELSE IF \E k \in js.keys : js.val[k].kind = "chan"
         THEN [err |-> JsonErr, body |-> NilSlice]
    ELSE [err |-> ErrNil,
          body |-> Bytes(<< 123 >> \o JsonMembers(SortKeys(js.keys), js.val) \o << 125 >>)]

(***************************************************************************)
(* The constructors.  A string argument is a byte sequence; []byte(s) is   *)
(* never nil.  A []byte argument is a slice value and may be nil.          *)
(***************************************************************************)
Identify(js) ==
    LET m == JsonMarshal(js)
    IN IF ~m.err.isNil THEN RetErr(m.err)
       ELSE Ret(Command(<< 73, 68, 69, 78, 84, 73, 70, 89 >>, <<>>, m.body))

Auth(secret) == Ret(Command(<< 65, 85, 84, 72 >>, <<>>, Bytes(secret)))

RegisterParamsAlways(topic, channel) == << topic, channel >>
RegisterParams(topic, channel) ==
    IF Len(channel) > 0 THEN << topic, channel >> ELSE << topic >>

Register(topic, channel) ==
    Ret(Command(<< 82, 69, 71, 73, 83, 84, 69, 82 >>, RegisterParams(topic, channel), NilSlice))

UnRegister(topic, channel) ==
    Ret(Command(<< 85, 78, 82, 69, 71, 73, 83, 84, 69, 82 >>,
                RegisterParams(topic, channel), NilSlice))

Ping == Ret(Command(<< 80, 73, 78, 71 >>, <<>>, NilSlice))

Publish(topic, body) == Ret(Command(<< 80, 85, 66 >>, << topic >>, body))

DeferredPublish(topic, delay, body) ==
    Ret(Command(<< 68, 80, 85, 66 >>, << topic, Itoa(DelayMs(delay)) >>, body))

\* the loop of MultiPublish: int32 length, then the message bytes
RECURSIVE MPubMessagesNoLen(_)
MPubMessagesNoLen(bodies) ==
    IF bodies = <<>> THEN <<>>
    ELSE Head(bodies).b \o MPubMessagesNoLen(Tail(bodies))
RECURSIVE MPubMessages(_)
MPubMessages(bodies) ==
    IF bodies = <<>> THEN <<>>
    ELSE PutUint32(I32(Len(Head(bodies).b))) \o Head(bodies).b
         \o MPubMessages(Tail(bodies))

MultiPublish(topic, bodies) ==
    LET num == U32(Len(bodies))
    IN Ret(Command(<< 77, 80, 85, 66 >>, << topic >>,
                   Bytes(PutUint32(num) \o MPubMessages(bodies))))

Subscribe(topic, channel) == Ret(Command(<< 83, 85, 66 >>, << topic, channel >>, NilSlice))

Ready(count) == Ret(Command(<< 82, 68, 89 >>, << Itoa(count) >>, NilSlice))

Finish(id) == Ret(Command(<< 70, 73, 78 >>, << id >>, NilSlice))

Requeue(id, delay) ==
    Ret(Command(<< 82, 69, 81 >>, << id, Itoa(DelayMs(delay)) >>, NilSlice))

Touch(id) == Ret(Command(<< 84, 79, 85, 67, 72 >>, << id >>, NilSlice))

StartClose == Ret(Command(<< 67, 76, 83 >>, <<>>, NilSlice))

Nop == Ret(Command(<< 78, 79, 80 >>, <<>>, NilSlice))

(***************************************************************************)
(* Arguments the callers pass, drawn from small sets.                      *)
(***************************************************************************)
Topics == { <<>>, << 116 >>, << 116, 32, 120 >>, << 10 >> }
Channels == { <<>>, << 99 >>, << 99, 32 >> }
BodyAlphabet == { 10, 104 }
BodySeqs == UNION { [1..n -> BodyAlphabet] : n \in 0..MaxBodyLen }
Bodies == { NilSlice } \cup { Bytes(s) : s \in BodySeqs }
Messages == { NilSlice, Bytes(<< 97 >>), Bytes(<< 98, 98 >>) }
MsgLists == UNION { [1..n -> Messages] : n \in 0..MaxMsgs }
Delays == { 0, 1, 999999, 1000000, 1500000, 2000000000, -1, -1500000, -2000000 }
Counts == { 0, 5, 10, 2500, -1 }
MsgIDs == { [i \in 1..MsgIDLength |-> 48],
            [i \in 1..MsgIDLength |-> IF i < 10 THEN 48 + i ELSE 97],
            [i \in 1..MsgIDLength |-> IF i = 3 THEN 32 ELSE 102],
            [i \in 1..MsgIDLength |-> IF i = MsgIDLength THEN 10 ELSE 49] }
NilMap == [isNil |-> TRUE, keys |-> {}, val |-> <<>>]
JsMap(ks, f) == [isNil |-> FALSE, keys |-> ks, val |-> f]
JsInt(n) == [kind |-> "int", v |-> n]
JsBool(b) == [kind |-> "bool", v |-> IF b THEN 1 ELSE 0]
JsChan == [kind |-> "chan", v |-> 0]
KeyA == << 97 >>
KeyB == << 98 >>
JsMaps == { NilMap,
            JsMap({}, <<>>),
            JsMap({KeyA}, [k \in {KeyA} |-> JsInt(30)]),
            JsMap({KeyA, KeyB}, [k \in {KeyA, KeyB} |-> IF k = KeyB THEN JsBool(TRUE) ELSE JsInt(-7)]),
            JsMap({KeyA}, [k \in {KeyA} |-> JsChan]) }

\* messages too long for int32, and lists too long for uint32
BigMessage == Bytes([i \in 1..(2 ^ (IntWidth - 1)) |-> 0])
WideLists == { << BigMessage >>,
               << Bytes(<< 97 >>), BigMessage >>,
               [i \in 1..(2 ^ IntWidth) |-> NilSlice],
               << Bytes(<< 97 >>) >> }

\* arguments of the concurrent callers
ConcTopics == { << 116 >> }
ConcChannels == { << 99 >> }
ConcBodies == { Bytes(<< 104 >>), Bytes(<< 104, 105 >>) }
ConcFails == { 0, 4 }
ConcPartials == { 1 }

(***************************************************************************)
(* State.                                                                  *)
(***************************************************************************)
VARIABLES
    byteSpace,    \* package-level var byteSpace
    byteNewLine,  \* package-level var byteNewLine
    op,           \* op[p]: the constructor call caller p made
    res,          \* res[p]: what the constructor returned
    pc,           \* pc[p]: where caller p is
    idx,          \* idx[p]: position of the range loop over c.Params
    total,        \* total[p]: local total of WriteTo
    err,          \* err[p]: the error WriteTo returned
    buf,          \* buf[s]: the length buffer in slot s
    sink,         \* sink[p]: the bytes p's writer has accepted
    calls,        \* calls[p]: the Write calls p's writer has received
    failAt,       \* failAt[p]: p's writer fails from this call on (0: never)
    partial       \* partial[p]: bytes a failing Write of p's writer accepts

vars == << byteSpace, byteNewLine, op, res, pc, idx, total, err, buf, sink, calls,
           failAt, partial >>

NoOp == [fn |-> "none", topic |-> <<>>, channel |-> <<>>, body |-> NilSlice, delay |-> 0,
         id |-> <<>>, count |-> 0, bodies |-> <<>>, js |-> NilMap]

Init ==
    /\ byteSpace = << SP >>
    /\ byteNewLine = << NL >>
    /\ op = [p \in Procs |-> NoOp]
    /\ res = [p \in Procs |-> RetErr(ErrNil)]
    /\ pc = [p \in Procs |-> "idle"]
    /\ idx = [p \in Procs |-> 0]
    /\ total = [p \in Procs |-> 0]
    /\ err = [p \in Procs |-> ErrNil]
    /\ buf = [p \in Procs |-> << 0, 0, 0, 0 >>]
    /\ sink = [p \in Procs |-> <<>>]
    /\ calls = [p \in Procs |-> <<>>]
    /\ failAt = [p \in Procs |-> 0]
    /\ partial = [p \in Procs |-> 0]

(***************************************************************************)
(* A caller constructs a Command.                                          *)
(***************************************************************************)
Construct(p, o, r) ==
    /\ pc[p] = "idle"
    /\ op' = [op EXCEPT ![p] = o]
    /\ res' = [res EXCEPT ![p] = r]
    /\ pc' = [pc EXCEPT ![p] = "built"]
    /\ UNCHANGED << byteSpace, byteNewLine, idx, total, err, buf, sink, calls, failAt, partial >>

CallIdentify(p, js) == Construct(p, [NoOp EXCEPT !.fn = "Identify", !.js = js], Identify(js))
CallAuth(p, secret) ==
    Construct(p, [NoOp EXCEPT !.fn = "Auth", !.body = Bytes(secret)], Auth(secret))
CallRegister(p, topic, channel) ==
    Construct(p, [NoOp EXCEPT !.fn = "Register", !.topic = topic, !.channel = channel],
              Register(topic, channel))
CallUnRegister(p, topic, channel) ==
    Construct(p, [NoOp EXCEPT !.fn = "UnRegister", !.topic = topic, !.channel = channel],
              UnRegister(topic, channel))
CallPing(p) == Construct(p, [NoOp EXCEPT !.fn = "Ping"], Ping)
CallPublish(p, topic, body) ==
    Construct(p, [NoOp EXCEPT !.fn = "Publish", !.topic = topic, !.body = body],
              Publish(topic, body))
CallDeferredPublish(p, topic, delay, body) ==
    Construct(p, [NoOp EXCEPT !.fn = "DeferredPublish", !.topic = topic, !.delay = delay,
                              !.body = body],
              DeferredPublish(topic, delay, body))
CallMultiPublish(p, topic, bodies) ==
    Construct(p, [NoOp EXCEPT !.fn = "MultiPublish", !.topic = topic, !.bodies = bodies],
              MultiPublish(topic, bodies))
CallSubscribe(p, topic, channel) ==
    Construct(p, [NoOp EXCEPT !.fn = "Subscribe", !.topic = topic, !.channel = channel],
              Subscribe(topic, channel))
CallReady(p, count) == Construct(p, [NoOp EXCEPT !.fn = "Ready", !.count = count], Ready(count))
CallFinish(p, id) == Construct(p, [NoOp EXCEPT !.fn = "Finish", !.id = id], Finish(id))
CallRequeue(p, id, delay) ==
    Construct(p, [NoOp EXCEPT !.fn = "Requeue", !.id = id, !.delay = delay], Requeue(id, delay))
CallTouch(p, id) == Construct(p, [NoOp EXCEPT !.fn = "Touch", !.id = id], Touch(id))
CallStartClose(p) == Construct(p, [NoOp EXCEPT !.fn = "StartClose"], StartClose)
CallNop(p) == Construct(p, [NoOp EXCEPT !.fn = "Nop"], Nop)

(***************************************************************************)
(* The caller's io.Writer.  Its k-th Write accepts all of p and returns    *)
(* nil, or, from call fa on, accepts the first min(part, len(p)) bytes and *)
(* returns an error of its own.                                            *)
(***************************************************************************)
SinkWrite(k, fa, part, data) ==
    IF fa > 0 /\ k >= fa
    THEN [n |-> Min(part, Len(data)), err |-> SinkErr(k)]
    ELSE [n |-> Len(data), err |-> ErrNil]

(***************************************************************************)
(* Command.WriteTo, one action per statement that calls w.Write.           *)
(***************************************************************************)
\* if err != nil { return total, err }
OnErrIgnore(e, next) == next
OnErr(e, next) == IF ~e.isNil THEN "done" ELSE next

\* n, err := w.Write(data); total += int64(n); if err != nil { return total, err }
Write(p, data, next) ==
    LET r == SinkWrite(Len(calls[p]) + 1, failAt[p], partial[p], data)
        to == OnErr(r.err, next)
    IN /\ calls' = [calls EXCEPT ![p] = Append(@, [data |-> data, n |-> r.n, err |-> r.err])]
       /\ sink' = [sink EXCEPT ![p] = @ \o SubSeq(data, 1, r.n)]
       /\ total' = [total EXCEPT ![p] = @ + r.n]
       /\ pc' = [pc EXCEPT ![p] = to]
       /\ err' = [err EXCEPT ![p] = IF to = "done" THEN r.err ELSE ErrNil]

\* the length buffer a call uses: `var buf [4]byte` is local to the call
SharedBufSlot(p) == 1
BufSlot(p) == p

StartWriteTo(p, fa, part) ==
    /\ pc[p] = "built"
    /\ res[p].ok
    /\ pc' = [pc EXCEPT ![p] = "WriteName"]
    /\ total' = [total EXCEPT ![p] = 0]
    /\ buf' = [buf EXCEPT ![BufSlot(p)] = << 0, 0, 0, 0 >>]
    /\ failAt' = [failAt EXCEPT ![p] = fa]
    /\ partial' = [partial EXCEPT ![p] = part]
    /\ UNCHANGED << byteSpace, byteNewLine, op, res, idx, err, sink, calls >>

AfterNameSkipParams(c) == "WriteNewLine"
AfterName(c) == IF Len(c.Params) > 0 THEN "WriteSpace" ELSE "WriteNewLine"

WriteName(p) ==
    /\ pc[p] = "WriteName"
    /\ Write(p, res[p].cmd.Name, AfterName(res[p].cmd))
    /\ idx' = [idx EXCEPT ![p] = 1]
    /\ UNCHANGED << byteSpace, byteNewLine, op, res, buf, failAt, partial >>

WriteSpace(p) ==
    /\ pc[p] = "WriteSpace"
    /\ Write(p, byteSpace, "WriteParam")
    /\ UNCHANGED << byteSpace, byteNewLine, op, res, idx, buf, failAt, partial >>

WriteParam(p) ==
    /\ pc[p] = "WriteParam"
    /\ Write(p, res[p].cmd.Params[idx[p]],
             IF idx[p] < Len(res[p].cmd.Params) THEN "WriteSpace" ELSE "WriteNewLine")
    /\ idx' = [idx EXCEPT ![p] = @ + 1]
    /\ UNCHANGED << byteSpace, byteNewLine, op, res, buf, failAt, partial >>

\* if c.Body != nil
AfterNewLineAlways(c) == "PutLen"
AfterNewLine(c) == IF ~c.Body.isNil THEN "PutLen" ELSE "done"

WriteNewLine(p) ==
    /\ pc[p] = "WriteNewLine"
    /\ Write(p, byteNewLine, AfterNewLine(res[p].cmd))
    /\ UNCHANGED << byteSpace, byteNewLine, op, res, idx, buf, failAt, partial >>

\* binary.BigEndian.PutUint32(bufs, uint32(len(c.Body)))
PutLen(p) ==
    /\ pc[p] = "PutLen"
    /\ buf' = [buf EXCEPT ![BufSlot(p)] = PutUint32(U32(Len(res[p].cmd.Body.b)))]
    /\ pc' = [pc EXCEPT ![p] = "WriteLen"]
    /\ UNCHANGED << byteSpace, byteNewLine, op, res, idx, total, err, sink, calls,
                    failAt, partial >>

WriteLen(p) ==
    /\ pc[p] = "WriteLen"
    /\ Write(p, buf[BufSlot(p)], "WriteBody")
    /\ UNCHANGED << byteSpace, byteNewLine, op, res, idx, buf, failAt, partial >>

WriteBody(p) ==
    /\ pc[p] = "WriteBody"
    /\ Write(p, res[p].cmd.Body.b, "done")
    /\ UNCHANGED << byteSpace, byteNewLine, op, res, idx, buf, failAt, partial >>

\* the Command is consumed once and dropped; the caller takes a fresh writer
Discard(p) ==
    /\ pc[p] = "done" \/ (pc[p] = "built" /\ ~res[p].ok)
    /\ op' = [op EXCEPT ![p] = NoOp]
    /\ res' = [res EXCEPT ![p] = RetErr(ErrNil)]
    /\ pc' = [pc EXCEPT ![p] = "idle"]
    /\ idx' = [idx EXCEPT ![p] = 0]
    /\ total' = [total EXCEPT ![p] = 0]
    /\ err' = [err EXCEPT ![p] = ErrNil]
    /\ sink' = [sink EXCEPT ![p] = <<>>]
    /\ calls' = [calls EXCEPT ![p] = <<>>]
    /\ failAt' = [failAt EXCEPT ![p] = 0]
    /\ partial' = [partial EXCEPT ![p] = 0]
    /\ buf' = [buf EXCEPT ![BufSlot(p)] = << 0, 0, 0, 0 >>]
    /\ UNCHANGED << byteSpace, byteNewLine >>

WriteToStep(p) ==
    \/ WriteName(p)
    \/ WriteSpace(p)
    \/ WriteParam(p)
    \/ WriteNewLine(p)
    \/ PutLen(p)
    \/ WriteLen(p)
    \/ WriteBody(p)

(***************************************************************************)
(* Spec: one caller, every constructor, every writer.                      *)
(***************************************************************************)
Next ==
    \/ \E js \in JsMaps : CallIdentify(1, js)
    \/ \E s \in BodySeqs : CallAuth(1, s)
    \/ \E t \in Topics, c \in Channels : CallRegister(1, t, c)
    \/ \E t \in Topics, c \in Channels : CallUnRegister(1, t, c)
    \/ CallPing(1)
    \/ \E t \in Topics, b \in Bodies : CallPublish(1, t, b)
    \/ \E t \in Topics, d \in Delays, b \in Bodies : CallDeferredPublish(1, t, d, b)
    \/ \E t \in Topics, bs \in MsgLists : CallMultiPublish(1, t, bs)
    \/ \E t \in Topics, c \in Channels : CallSubscribe(1, t, c)
    \/ \E n \in Counts : CallReady(1, n)
    \/ \E id \in MsgIDs : CallFinish(1, id)
    \/ \E id \in MsgIDs, d \in Delays : CallRequeue(1, id, d)
    \/ \E id \in MsgIDs : CallTouch(1, id)
    \/ CallStartClose(1)
    \/ CallNop(1)
    \/ \E fa \in 0..MaxFail, part \in 0..MaxPartial : StartWriteTo(1, fa, part)
    \/ WriteToStep(1)
    \/ Discard(1)

Spec == Init /\ [][Next]_vars

(***************************************************************************)
(* SpecWide: MultiPublish on lists whose lengths exceed the 32-bit fields. *)
(***************************************************************************)
NextWide ==
    \/ \E t \in Topics, bs \in WideLists : CallMultiPublish(1, t, bs)
    \/ \E fa \in 0..MaxFail, part \in 0..MaxPartial : StartWriteTo(1, fa, part)
    \/ WriteToStep(1)
    \/ Discard(1)

SpecWide == Init /\ [][NextWide]_vars

(***************************************************************************)
(* SpecConc: NProcs callers run WriteTo at once, each on a Command and a   *)
(* writer of its own.                                                      *)
(***************************************************************************)
NextConc ==
    \E p \in Procs :
        \/ \E t \in ConcTopics, b \in ConcBodies : CallPublish(p, t, b)
        \/ \E t \in ConcTopics, c \in ConcChannels : CallSubscribe(p, t, c)
        \/ \E fa \in ConcFails, part \in ConcPartials : StartWriteTo(p, fa, part)
        \/ WriteToStep(p)
        \/ Discard(p)

SpecConc == Init /\ [][NextConc]_vars

(***************************************************************************)
(* The wire format, stated independently of WriteTo's steps.               *)
(***************************************************************************)
BigEndian4(n) == [i \in 1..4 |-> (n \div (256 ^ (4 - i))) % 256]
FromBigEndian4(b) == ((b[1] * 256 + b[2]) * 256 + b[3]) * 256 + b[4]

RECURSIVE SpacedParams(_)
SpacedParams(ps) ==
    IF ps = <<>> THEN <<>> ELSE << SP >> \o Head(ps) \o SpacedParams(Tail(ps))

Layout(c) ==
    c.Name \o SpacedParams(c.Params) \o << NL >>
    \o (IF c.Body.isNil THEN <<>> ELSE BigEndian4(Len(c.Body.b)) \o c.Body.b)

\* the Write calls of a complete WriteTo, in order
RECURSIVE ParamWrites(_)
ParamWrites(ps) ==
    IF ps = <<>> THEN <<>> ELSE << << SP >>, Head(ps) >> \o ParamWrites(Tail(ps))

ExpectedWrites(c) ==
    << c.Name >> \o ParamWrites(c.Params) \o << << NL >> >>
    \o (IF c.Body.isNil THEN <<>> ELSE << BigEndian4(Len(c.Body.b)), c.Body.b >>)

IsPrefix(a, b) == Len(a) <= Len(b) /\ a = SubSeq(b, 1, Len(a))

RECURSIVE SumN(_)
SumN(cs) == IF cs = <<>> THEN 0 ELSE Head(cs).n + SumN(Tail(cs))

Accepted(p) == \A i \in 1..Len(calls[p]) : calls[p][i].err.isNil
Done(p) == pc[p] = "done"
Encoding(p) == pc[p] \notin { "idle", "built" }
Built(p) == pc[p] # "idle" /\ res[p].ok
Cmd(p) == res[p].cmd

\* what a WriteTo of c returns, and leaves in its writer, when it runs alone
RunAlone(c, fa, part) ==
    LET ws == ExpectedWrites(c)
    IN IF fa = 0 \/ fa > Len(ws)
       THEN [sink |-> Flatten(ws), total |-> Len(Flatten(ws)), err |-> ErrNil]
       ELSE LET out == Flatten(SubSeq(ws, 1, fa - 1))
                       \o SubSeq(ws[fa], 1, Min(part, Len(ws[fa])))
            IN [sink |-> out, total |-> Len(out), err |-> SinkErr(fa)]

(***************************************************************************)
(* C1.  A WriteTo whose writer accepted every Write has appended exactly   *)
(* name, then a space and the param for each param in order, then a        *)
(* newline, then, only if the body is present, the body length as 4        *)
(* big-endian bytes and the body; it returns the number of bytes appended  *)
(* and a nil error.                                                        *)
(***************************************************************************)
C1_ExactEncoding ==
    \A p \in Procs :
        (Done(p) /\ Accepted(p)) =>
            /\ sink[p] = Layout(Cmd(p))
            /\ total[p] = Len(sink[p])
            /\ err[p] = ErrNil

C1_Witness ==
    /\ Done(1) /\ Accepted(1)
    /\ Len(Cmd(1).Params) = 2
    /\ ~Cmd(1).Body.isNil /\ Len(Cmd(1).Body.b) = 2

(***************************************************************************)
(* C2.  When the writer fails at its k-th Write, WriteTo returns that      *)
(* error, a count equal to the sum of the counts of all Write calls made   *)
(* (the failing one included), and makes no Write call after the failing   *)
(* one.                                                                    *)
(***************************************************************************)
NumWrites(c) == 1 + 2 * Len(c.Params) + 1 + (IF c.Body.isNil THEN 0 ELSE 2)

C2_FirstErrorReturned ==
    \A p \in Procs :
        /\ \A i \in 1..(Len(calls[p]) - 1) : calls[p][i].err.isNil
        /\ Done(p) => total[p] = SumN(calls[p])
        /\ (Done(p) /\ failAt[p] > 0 /\ failAt[p] <= NumWrites(Cmd(p))) =>
              /\ Len(calls[p]) = failAt[p]
              /\ err[p] = calls[p][failAt[p]].err
              /\ err[p] = SinkErr(failAt[p])
        /\ (Done(p) /\ (failAt[p] = 0 \/ failAt[p] > NumWrites(Cmd(p)))) =>
              /\ Len(calls[p]) = NumWrites(Cmd(p))
              /\ err[p] = ErrNil

C2_Witness ==
    /\ Done(1) /\ failAt[1] = 3
    /\ ~err[1].isNil
    /\ calls[1][3].n > 0 /\ calls[1][3].n < Len(calls[1][3].data)
    /\ total[1] = Len(Cmd(1).Name) + 1 + calls[1][3].n
    /\ NumWrites(Cmd(1)) > 3

(***************************************************************************)
(* C3.  Round trip.  The decoder splits the first line at the first        *)
(* newline, splits it at single spaces, and reads an optional 4-byte       *)
(* length-prefixed body.                                                   *)
(***************************************************************************)
FirstIndex(s, x) == CHOOSE i \in 1..Len(s) : s[i] = x /\ \A j \in 1..(i - 1) : s[j] # x
Has(s, x) == \E i \in 1..Len(s) : s[i] = x

RECURSIVE Split(_)
Split(s) ==
    IF ~Has(s, SP) THEN << s >>
    ELSE LET i == FirstIndex(s, SP)
         IN << SubSeq(s, 1, i - 1) >> \o Split(SubSeq(s, i + 1, Len(s)))

\* the frame is well formed: a line, then nothing or a length and that many bytes
\* (a length of 2^31 or more exceeds every frame here)
Decodable(bs) ==
    /\ Has(bs, NL)
    /\ LET rest == SubSeq(bs, FirstIndex(bs, NL) + 1, Len(bs))
       IN \/ rest = <<>>
          \/ /\ Len(rest) >= 4
             /\ rest[1] < 128
             /\ Len(rest) >= 4 + FromBigEndian4(SubSeq(rest, 1, 4))

Decode(bs) ==
    LET i == FirstIndex(bs, NL)
        toks == Split(SubSeq(bs, 1, i - 1))
        rest == SubSeq(bs, i + 1, Len(bs))
    IN [Name |-> Head(toks),
        Params |-> Tail(toks),
        Body |-> IF rest = <<>> THEN NilSlice
                 ELSE Bytes(SubSeq(rest, 5, 4 + FromBigEndian4(SubSeq(rest, 1, 4))))]

\* nil and absent are the same on the wire; a present body keeps its bytes
RoundTrips(p) == Decodable(sink[p]) /\ Decode(sink[p]) = Cmd(p)

CleanParams(c) ==
    \A i \in 1..Len(c.Params) : ~Has(c.Params[i], SP) /\ ~Has(c.Params[i], NL)

\* C3 as stated: every argument value, delimiter bytes in params included
C3_RoundTripAll ==
    \A p \in Procs : (Done(p) /\ Accepted(p)) => RoundTrips(p)

\* C3 amended: the decoder recovers name, params and body of every Command
\* whose params hold no space and no newline byte (empty params included)
C3_RoundTripClean ==
    \A p \in Procs : (Done(p) /\ Accepted(p) /\ CleanParams(Cmd(p))) => RoundTrips(p)

C3_Witness ==
    /\ Done(1) /\ Accepted(1) /\ CleanParams(Cmd(1))
    /\ op[1].fn = "DeferredPublish"
    /\ Cmd(1).Params[1] = <<>>
    /\ Cmd(1).Body = Bytes(<< 10, 104 >>)

(***************************************************************************)
(* C4.  Body presence is fixed by the verb: Identify, Auth, Publish,       *)
(* DeferredPublish and MultiPublish always return a present body, nil or   *)
(* empty payloads included, and their encoding carries the 4-byte length   *)
(* after the newline; the other verbs return an absent body and their      *)
(* encoding ends at the newline.                                           *)
(***************************************************************************)
BodyVerbs == { "Identify", "Auth", "Publish", "DeferredPublish", "MultiPublish" }
Line(c) == c.Name \o SpacedParams(c.Params) \o << NL >>

C4_BodyFixedByVerb ==
    \A p \in Procs :
        Built(p) =>
            /\ (op[p].fn \in BodyVerbs) = ~Cmd(p).Body.isNil
            /\ (Done(p) /\ Accepted(p) /\ op[p].fn \in BodyVerbs) =>
                  /\ Len(sink[p]) >= Len(Line(Cmd(p))) + 4
                  /\ SubSeq(sink[p], Len(Line(Cmd(p))) + 1, Len(Line(Cmd(p))) + 4)
                        = BigEndian4(Len(op[p].body.b))
                     \/ op[p].fn \in { "Identify", "MultiPublish" }
            /\ (Done(p) /\ Accepted(p) /\ op[p].fn \notin BodyVerbs) =>
                  sink[p] = Line(Cmd(p))

(***************************************************************************)
(* C5.  WriteTo calls running concurrently on Commands and writers of      *)
(* their own: under every interleaving each writer holds, and each call    *)
(* returns, what the call produces when run alone; no step changes the     *)
(* package-level byte slices, the Command being encoded, or the local      *)
(* state of two calls at once.                                             *)
(***************************************************************************)
Locals(p) == << op[p], res[p], pc[p], idx[p], total[p], err[p], buf[p], sink[p],
                calls[p], failAt[p], partial[p] >>

C5_SameAsAlone ==
    \A p \in Procs :
        LET alone == RunAlone(Cmd(p), failAt[p], partial[p])
        IN /\ Encoding(p) => IsPrefix(sink[p], alone.sink)
           /\ Done(p) => /\ sink[p] = alone.sink
                         /\ total[p] = alone.total
                         /\ err[p] = alone.err

C5_NoSharedWrite ==
    /\ byteSpace' = byteSpace
    /\ byteNewLine' = byteNewLine
    /\ \A p \in Procs : (Encoding(p) /\ pc[p] # "done") => res'[p] = res[p]
    /\ \A p, q \in Procs : p # q => (Locals(p)' = Locals(p) \/ Locals(q)' = Locals(q))

C5_Independent == [](C5_SameAsAlone) /\ [][C5_NoSharedWrite]_vars

C5_Witness ==
    /\ pc[1] = "WriteLen" /\ pc[2] = "WriteBody"
    /\ Len(Cmd(1).Body.b) # Len(Cmd(2).Body.b)
    /\ failAt[1] = 0

(***************************************************************************)
(* C6.  MultiPublish returns an error and no Command, with nothing         *)
(* written, whenever a message's length does not fit the signed 32-bit     *)
(* length field or the number of messages does not fit the count field; a  *)
(* Command it does return never carries a wrapped or negative length.      *)
(***************************************************************************)
RECURSIVE MessageFrames(_)
MessageFrames(bodies) ==
    IF bodies = <<>> THEN <<>>
    ELSE BigEndian4(Len(Head(bodies).b)) \o Head(bodies).b \o MessageFrames(Tail(bodies))

Encodable(bodies) ==
    /\ Len(bodies) < 2 ^ IntWidth
    /\ \A i \in 1..Len(bodies) : Len(bodies[i].b) < 2 ^ (IntWidth - 1)

C6_UnencodableRejected ==
    \A p \in Procs :
        (pc[p] # "idle" /\ op[p].fn = "MultiPublish") =>
            /\ ~Encodable(op[p].bodies) =>
                  /\ ~res[p].ok
                  /\ ~res[p].err.isNil
                  /\ sink[p] = <<>>
            /\ res[p].ok =>
                  Cmd(p).Body.b = BigEndian4(Len(op[p].bodies)) \o MessageFrames(op[p].bodies)

(***************************************************************************)
(* C7.  MultiPublish returns the Command MPUB with params [topic] and a    *)
(* present body: the 4-byte big-endian message count, then for each        *)
(* message in order its 4-byte big-endian length and its bytes; the body   *)
(* is 4 + sum(4 + len) bytes long and WriteTo prefixes it with its length. *)
(***************************************************************************)
RECURSIVE FramedSize(_)
FramedSize(bodies) ==
    IF bodies = <<>> THEN 0 ELSE 4 + Len(Head(bodies).b) + FramedSize(Tail(bodies))

C7_MultiPublishBody ==
    \A p \in Procs :
        (pc[p] # "idle" /\ op[p].fn = "MultiPublish") =>
            /\ res[p].ok /\ res[p].err = ErrNil
            /\ Cmd(p).Name = << 77, 80, 85, 66 >>
            /\ Cmd(p).Params = << op[p].topic >>
            /\ ~Cmd(p).Body.isNil
            /\ Cmd(p).Body.b = BigEndian4(Len(op[p].bodies)) \o MessageFrames(op[p].bodies)
            /\ Len(Cmd(p).Body.b) = 4 + FramedSize(op[p].bodies)
            /\ (Done(p) /\ Accepted(p)) =>
                  sink[p] = << 77, 80, 85, 66, SP >> \o op[p].topic \o << NL >>
                            \o BigEndian4(4 + FramedSize(op[p].bodies)) \o Cmd(p).Body.b

C7_Witness ==
    /\ Done(1) /\ Accepted(1)
    /\ op[1].fn = "MultiPublish"
    /\ Len(op[1].bodies) = 2
    /\ op[1].bodies[1] = NilSlice
    /\ Len(op[1].bodies[2].b) = 2

(***************************************************************************)
(* C8.  Register and UnRegister return an absent body and the params       *)
(* [topic] when the channel is empty, [topic, channel] otherwise, so an    *)
(* empty channel adds no trailing space to the line; Subscribe always has  *)
(* the two params [topic, channel].                                        *)
(***************************************************************************)
C8_ChannelOmittedIfEmpty ==
    \A p \in Procs :
        Built(p) =>
            /\ op[p].fn \in { "Register", "UnRegister" } =>
                  /\ Cmd(p).Body.isNil
                  /\ Cmd(p).Params = IF op[p].channel = <<>>
                                     THEN << op[p].topic >>
                                     ELSE << op[p].topic, op[p].channel >>
                  /\ (Done(p) /\ Accepted(p)) =>
                        sink[p] = Cmd(p).Name \o << SP >> \o op[p].topic
                                  \o (IF op[p].channel = <<>> THEN <<>>
                                      ELSE << SP >> \o op[p].channel)
                                  \o << NL >>
            /\ op[p].fn = "Subscribe" =>
                  /\ Cmd(p).Params = << op[p].topic, op[p].channel >>
                  /\ Cmd(p).Body.isNil

C8_Witness ==
    /\ Done(1) /\ Accepted(1)
    /\ op[1].fn = "Register"
    /\ op[1].channel = <<>> /\ op[1].topic = << 116 >>
    /\ sink[1] = << 82, 69, 71, 73, 83, 84, 69, 82, SP, 116, NL >>

(***************************************************************************)
(* C9.  DeferredPublish and Requeue emit as second param the decimal       *)
(* ASCII string of the delay in whole milliseconds, truncated toward       *)
(* zero, after the topic or the 16 id bytes; 0 gives "0" and the param of  *)
(* a non-negative delay is a non-negative decimal integer.                 *)
(***************************************************************************)
IsDigits(s) == Len(s) > 0 /\ \A i \in 1..Len(s) : s[i] >= 48 /\ s[i] <= 57

RECURSIVE DigitsValue(_)
DigitsValue(s) ==
    IF s = <<>> THEN 0 ELSE DigitsValue(SubSeq(s, 1, Len(s) - 1)) * 10 + (s[Len(s)] - 48)

\* s is the canonical decimal string of an integer of magnitude at most 4 digits
Canonical(s) ==
    LET d == IF Len(s) > 0 /\ s[1] = 45 THEN Tail(s) ELSE s
    IN /\ IsDigits(d) /\ Len(d) <= 4
       /\ (Len(d) > 1 => d[1] # 48)
       /\ (s # d => d # << 48 >>)

DecimalValue(s) == IF s[1] = 45 THEN -DigitsValue(Tail(s)) ELSE DigitsValue(s)

\* q is delay / 1ms truncated toward zero
IsTruncatedMs(q, delay) ==
    IF delay >= 0
    THEN q >= 0 /\ q * Millisecond <= delay /\ delay - q * Millisecond < Millisecond
    ELSE q <= 0 /\ q * Millisecond >= delay /\ q * Millisecond - delay < Millisecond

C9_DelayInMilliseconds ==
    \A p \in Procs :
        (Built(p) /\ op[p].fn \in { "DeferredPublish", "Requeue" }) =>
            /\ Len(Cmd(p).Params) = 2
            /\ Cmd(p).Params[1] = IF op[p].fn = "Requeue" THEN op[p].id ELSE op[p].topic
            /\ op[p].fn = "Requeue" => Len(Cmd(p).Params[1]) = MsgIDLength
            /\ Canonical(Cmd(p).Params[2])
            /\ IsTruncatedMs(DecimalValue(Cmd(p).Params[2]), op[p].delay)
            /\ op[p].delay >= 0 => IsDigits(Cmd(p).Params[2])
            /\ op[p].delay = 0 => Cmd(p).Params[2] = << 48 >>

C9_Witness ==
    /\ Built(1) /\ op[1].fn = "Requeue"
    /\ op[1].delay = 1500000
    /\ Cmd(1).Params[2] = << 49 >>

(***************************************************************************)
(* C10.  After every Write of a WriteTo call, successful or failing, the   *)
(* bytes appended are a prefix of the Command's encoding and the running   *)
(* total is their number; the Writes are issued in the order name, then    *)
(* space and param for each param, then newline, length field, body.       *)
(***************************************************************************)
CallData(cs) == [i \in 1..Len(cs) |-> cs[i].data]

C10_PrefixInvariant ==
    \A p \in Procs :
        Encoding(p) =>
            /\ IsPrefix(sink[p], Layout(Cmd(p)))
            /\ total[p] = Len(sink[p])
            /\ IsPrefix(CallData(calls[p]), ExpectedWrites(Cmd(p)))

C10_Witness ==
    /\ Done(1) /\ ~err[1].isNil
    /\ Len(calls[1]) = 5
    /\ calls[1][5].n = 1 /\ Len(calls[1][5].data) > 1
    /\ ~Cmd(1).Body.isNil

====
